---- MODULE Spec2Model ----
(***************************************************************************)
(* Model of the session/query orchestrator of the Telegram bot:            *)
(* ClaudeSession (src/src/session.ts) and the handlers that drive it       *)
(* (text handler, callback handlers, /stop command).                       *)
(*                                                                         *)
(* JavaScript runs handlers on one thread: code between two awaits is one  *)
(* atomic step.  Each action below is one such stretch of code.            *)
(***************************************************************************)
EXTENDS Integers, Sequences, FiniteSets, TLC

\* ---------------------------------------------------------------- bounds
NumSessions == 1
NumCalls == 3
MaxEvents == 2
MaxCheckpoints == 2
MaxMsgLen == 3
MaxWrites == 2
MaxSaves == 2
MaxRecorded == 4
MaxSnapshot == 2
MaxEmitted == 3

\* The configured limit of the gate.
MAX_CONCURRENT_QUERIES == 2

\* ------------------------------------------------------ program constants
MAX_RETRIES == 1

Sessions == 1..NumSessions
Calls == 1..NumCalls

\* The session a handler invocation works on.
SessionOf(q) == ((q - 1) % NumSessions) + 1

NULL == "null"

\* ------------------------------------------------------------------ text
\* Text is a sequence of characters; a delta may be the empty string.
Deltas == {<<>>, <<"a">>, <<"b">>}

RECURSIVE Join(_)
Join(parts) ==
    IF parts = <<>> THEN <<>> ELSE Head(parts) \o Join(Tail(parts))

\* A text variable that holds null.
NullText == <<NULL>>

NoResponse == <<"No response from Claude.">>
WaitingForUser == <<"[Waiting for user selection]">>

\* ---------------------------------------------------------------- errors
\* An error is known to the code only through substrings of its message:
\*   exit    - String(error).toLowerCase() includes "process exited with code"
\*   cleanup - it includes "cancel" or "abort"
NoError == [kind |-> "none", exit |-> FALSE, cleanup |-> FALSE]
ErrQueryCancelled == [kind |-> "Query cancelled", exit |-> FALSE, cleanup |-> TRUE]
ErrServerBusy == [kind |-> "Server busy", exit |-> FALSE, cleanup |-> FALSE]
ErrUnsafeBlocked == [kind |-> "Unsafe command blocked", exit |-> FALSE, cleanup |-> FALSE]
\* "File access blocked: <path>": the message carries the path the tool named,
\* and a path may contain "cancel" or "abort".
ErrFileBlocked(named) ==
    [kind |-> "File access blocked", exit |-> FALSE, cleanup |-> named]
ErrCancelledByUser == [kind |-> "Query cancelled by user", exit |-> FALSE, cleanup |-> TRUE]
ProviderErrors == [kind : {"provider"}, exit : BOOLEAN, cleanup : BOOLEAN]
\* "Codex worker exited with code=<n>. <stderr>": what the worker wrote to
\* stderr is part of the message and may hold any of the substrings.
CodexErrors ==
    [kind : {"Codex worker exited with code"}, exit : BOOLEAN,
     cleanup : BOOLEAN]

\* ---------------------------------------------------------------- events
\* Stream events of the provider, one content block per assistant event.
\* session_id and uuid are the fields of an event the loop reads before it
\* looks at the type; the events of StreamEvents carry neither.
\* A tool_use block is known to the loop by what its checks answer:
\*   safe        - a tool that passes the checks
\*   unsafe      - Bash with a command checkCommandSafety rejects
\*   denied      - Read, Write or Edit of a path that is not allowed
\*   deniedabort - the same, the path containing "cancel" or "abort"
\*   askuser     - the ask-user tool, its request found by one of the polls
\*   askmiss     - the ask-user tool, no poll finding a request
TextEvents ==
    [type : {"text"}, text : Deltas, tool : {NULL}, session_id : {NULL},
     uuid : {NULL}]
ToolEvents ==
    [type : {"tool"}, text : {<<>>},
     tool : {"safe", "unsafe", "denied", "deniedabort", "askuser", "askmiss"},
     session_id : {NULL}, uuid : {NULL}]
ResultEvents ==
    [type : {"result"}, text : {<<>>}, tool : {NULL}, session_id : {NULL},
     uuid : {NULL}]
StreamEvents == TextEvents \cup ToolEvents \cup ResultEvents
NoEvent ==
    [type |-> "none", text |-> <<>>, tool |-> NULL, session_id |-> NULL,
     uuid |-> NULL]

SessionIds == {"s1", "s2"}
Uuids == {"u1", "u2"}
Dirs == {"d1", "d2"}
Providers == {"claude", "codex"}

\* The first event of a stream: it names the provider's session.
SystemEvents ==
    [type : {"system"}, text : {<<>>}, tool : {NULL}, session_id : SessionIds,
     uuid : {NULL}]
\* The echo of a user message, the checkpoint /undo rewinds to.
UserEvents ==
    [type : {"user"}, text : {<<>>}, tool : {NULL}, session_id : {NULL},
     uuid : Uuids \cup {NULL}]

\* The event that ends a turn, naming the provider's session.
IdentifiedResults ==
    [type : {"result"}, text : {<<>>}, tool : {NULL}, session_id : SessionIds,
     uuid : {NULL}]

\* The Codex provider translates its stream into assistant and result
\* events; system events and user echoes come from the Claude provider only.
Emits(provider, ev) == provider = "codex" => ev.type \notin {"user", "system"}

\* -------------------------------------------------------------- messages
\* A message is a sequence of pieces of text; a keyword is found in it when
\* its pieces occur in it side by side.
Alphabet == {"think", "THINK", "ultra", " hard", "pensa", " bene", "x"}

Messages == UNION {[1..n -> Alphabet] : n \in 0..MaxMsgLen}

PlainMessage == <<"x">>

\* String.prototype.toLowerCase, piece by piece
ToLowerCase(m) == [i \in 1..Len(m) |-> IF m[i] = "THINK" THEN "think" ELSE m[i]]

\* String.prototype.includes
Includes(m, k) ==
    \E i \in 1..(Len(m) + 1) :
        /\ i + Len(k) - 1 <= Len(m)
        /\ SubSeq(m, i, i + Len(k) - 1) = k

\* config defaults "think,pensa,ragiona" and "ultrathink,think hard,pensa bene"
THINKING_KEYWORDS == {<<"think">>, <<"pensa">>}
THINKING_DEEP_KEYWORDS == {<<"ultra", "think">>, <<"think", " hard">>, <<"pensa", " bene">>}

getThinkingLevel_NormalFirst(m) ==
    IF \E k \in THINKING_KEYWORDS : Includes(ToLowerCase(m), k) THEN 10000
    ELSE IF \E k \in THINKING_DEEP_KEYWORDS : Includes(ToLowerCase(m), k) THEN 50000
    ELSE 0

getThinkingLevel(m) ==
    IF \E k \in THINKING_DEEP_KEYWORDS : Includes(ToLowerCase(m), k) THEN 50000
    ELSE IF \E k \in THINKING_KEYWORDS : Includes(ToLowerCase(m), k) THEN 10000
    ELSE 0

\* The budgets the /think command can force, and forceThinking when none is.
ThinkingLevels == {0, 10000, 50000}
NoForce == -1

\* A persisted session: what _doSaveSession writes.
SESSION_VERSION == 1
Snapshot(v, id, d) == [version |-> v, session_id |-> id, working_dir |-> d]

VARIABLES
    session,         \* ClaudeSession fields, one record per session
    activeQueries,   \* ClaudeSession._activeQueries (static)
    sessionRunning,  \* last value emitted as botEvents "sessionRunning"
    call,            \* one handler invocation and its sendMessageStreaming call
    stopPc,          \* position of the /stop command handler, per session
    pendingStop,     \* observation: stop() answered "pending" to a handler that
                     \* is still Processing, and no send was made since
    obs,             \* observation: stop() set the flag while the call was Running
    message,         \* the text of the messages the user sends
    disk,            \* SESSION_FILE, and how often it was written
    undo             \* position and outcome of the /undo handler, per session

vars ==
    <<session, activeQueries, sessionRunning, call, stopPc, pendingStop, obs,
      message, disk, undo>>

\* What the steps of a query and of the handlers around it leave alone.
outside == <<message, disk, undo>>

\* Fields of ClaudeSession after construction.
\* saveTimeout: null, the handle of a timer that is scheduled ("pending"), or
\* the handle of one that has run ("fired").  queryInstance: null, or the
\* provider that created the attached query.  Usage totals are left out.
\* echoes is an observation, not a field: the user messages with a uuid seen
\* since the last kill(), less those a successful undo() has taken back.
\* saves is one too: the saveSession() calls, counted up to MaxSaves, since
\* the timer last ran or was cleared.  resumeReply is what resumeLast()
\* returned last.  sinceCheck stands for the clock while a query runs:
\* more than QUERY_TIMEOUT_MS has passed since _lastTimeoutCheck.  Query start
\* sets _lastTimeoutCheck before the clock is read again, so the clock is not
\* followed while no query runs.  The stream events modelled carry no usage,
\* so the usage totals move only where a used session is the starting point.
\* cleared is an observation: kill() or setWorkingDir() set sessionId to null
\* and since then no query has started and resumeLast() has restored none.
\* freshDir is an observation: setWorkingDir() ran and no query has started
\* since.
NewSession ==
    [isQueryRunning |-> FALSE, abortController |-> 0, stopRequested |-> FALSE,
     isProcessing |-> FALSE, wasInterrupted |-> FALSE, queryStarted |-> FALSE,
     currentTool |-> NULL, lastError |-> NULL, lastErrorTime |-> FALSE,
     timeoutResponse |-> NULL,
     sessionId |-> NULL, lastActivity |-> FALSE, workingDir |-> "d1",
     providerId |-> "claude", queryInstance |-> NULL,
     userMessageUuids |-> <<>>, forceThinking |-> NoForce, planMode |-> FALSE,
     saveTimeout |-> NULL, pendingSave |-> FALSE, echoes |-> 0,
     saves |-> 0, resumeReply |-> NULL, sinceCheck |-> FALSE,
     totalInputTokens |-> 0, totalOutputTokens |-> 0,
     totalCacheReadTokens |-> 0, currentModel |-> "sonnet",
     handoffContext |-> NULL, pendingMessages |-> <<>>, freshDir |-> FALSE,
     cleared |-> FALSE]

\* Items of a Codex thread: an agent message and a reasoning item.
Items == {"i1", "i2"}
ItemType(i) == IF i = "i1" THEN "text" ELSE "thinking"

\* The text of an item as an event of the thread gives it: all of it so far.
Snapshots == UNION {[1..n -> {"a", "b"}] : n \in 0..MaxSnapshot}

\* The closure of a Codex query: textByItemId and thinkingByItemId (an absent
\* key reads as ""), and what is observed of flushTextDelta: per item the
\* deltas emitted, joined, the latest snapshot given, whether every snapshot
\* began with the one before it; of the last call the text, the map's entry
\* before it and the delta of the event returned (null when none was).
NewCodex ==
    [textByItemId |-> [i \in Items |-> <<>>],
     thinkingByItemId |-> [i \in Items |-> <<>>],
     emitted |-> [i \in Items |-> <<>>],
     latest |-> [i \in Items |-> <<>>],
     extending |-> [i \in Items |-> TRUE],
     last |-> [text |-> <<>>, prev |-> <<>>, delta |-> NullText]]

\* A handler that has not begun; pc is the await it is suspended at.
\* resume and handoff are what the query was created with: options.resume
\* and the session summary put in front of the message; permissionMode is
\* the option of that name, of the attempt made last.
\* responseParts .. askUserTriggered are the locals of sendMessageStreaming,
\* aborted is the signal of the AbortController this call created.
NewCall ==
    [pc |-> "idle", kind |-> NULL, attempt |-> 0, provQuery |-> FALSE,
     aborted |-> FALSE, responseParts |-> <<>>, queryCompleted |-> FALSE,
     askUserTriggered |-> FALSE, nEvents |-> 0, heldEvent |-> NoEvent,
     outcome |-> "none", error |-> NoError, result |-> NullText,
     thinkingTokens |-> 0, currentSegmentId |-> 0, currentSegmentText |-> <<>>,
     resume |-> NULL, handoff |-> NULL, codex |-> NewCodex,
     permissionMode |-> NULL]

\* The /undo handler: pc is the await it is suspended at, target the popped
\* checkpoint, by the provider whose query rewinds; before is the stack as
\* undo() found it, ok and reply what the last undo() returned.  reset is an
\* observation: kill() ran while rewindFiles was pending.
NewUndo ==
    [pc |-> "idle", target |-> NULL, by |-> NULL, before |-> <<>>,
     ok |-> FALSE, reply |-> NULL, reset |-> FALSE]

\* SESSION_FILE does not exist.
\* covers and timer are observations: the saveSession() calls the last write
\* made good, and whether the timer's callback made it.
NewDisk ==
    [exists |-> FALSE, file |-> Snapshot(0, NULL, NULL), writes |-> 0,
     covers |-> 0, timer |-> FALSE]

\* What is observed of a call: stop() found it running; the status callbacks
\* it made, kept when the caller's callback is one that records them; whether
\* the running query has resumed after a timeout prompt; whether the prompt
\* it waits at discarded an answer given before it.
NewObs ==
    [stopSeen |-> FALSE, recording |-> FALSE, log |-> <<>>, waited |-> NULL,
     stale |-> FALSE]

\* The observations of a call that begins.
FreshObs(o) == [NewObs EXCEPT !.recording = o.recording]

\* isRunning getter
isRunning(s) == session[s].isQueryRunning \/ session[s].isProcessing

\* A sendMessageStreaming call is in flight between query start (the gate is
\* passed, the provider query created) and its cleanup (the finally block).
InFlight(q) == call[q].pc \in {"running", "timeoutwait"}

Init ==
    /\ session = [s \in Sessions |-> NewSession]
    /\ activeQueries = 0
    /\ sessionRunning = NULL
    /\ call = [q \in Calls |-> NewCall]
    /\ stopPc = [s \in Sessions |-> "idle"]
    /\ pendingStop = [s \in Sessions |-> FALSE]
    /\ obs = [q \in Calls |-> NewObs]
    /\ message = PlainMessage
    /\ disk = NewDisk
    /\ undo = [s \in Sessions |-> NewUndo]

\* ------------------------------------------------------------------ stop()
\* What ClaudeSession.stop() answers on a session whose fields are S.
stopResult(S) ==
    IF S.isQueryRunning /\ S.abortController # 0 THEN "stopped"
    ELSE IF S.isProcessing THEN "pending"
    ELSE "false"

\* stop() sets the flag in both branches that find something to stop.
StopSession(S) ==
    IF stopResult(S) = "false" THEN S ELSE [S EXCEPT !.stopRequested = TRUE]

\* abortController.abort() fires the signal of the controller the session holds.
AbortCurrent(C, S) ==
    IF S.abortController # 0
    THEN [C EXCEPT ![S.abortController].aborted = TRUE]
    ELSE C

StopCalls(C, S) == IF stopResult(S) = "stopped" THEN AbortCurrent(C, S) ELSE C

\* stop() as called by a handler: S is the session as the handler left it.
\* Also records which in-flight calls were Running when the flag was set.
Stop(s, S, C) ==
    /\ session' = [session EXCEPT ![s] = StopSession(S)]
    /\ call' = StopCalls(C, S)
    /\ pendingStop' = [pendingStop EXCEPT ![s] = @ \/ stopResult(S) = "pending"]
    /\ obs' = [q \in Calls |->
                 IF stopResult(S) = "stopped" /\ SessionOf(q) = s /\ InFlight(q)
                 THEN [obs[q] EXCEPT !.stopSeen = TRUE]
                 ELSE obs[q]]
    /\ UNCHANGED <<activeQueries, sessionRunning, outside>>

\* ------------------------------------------- sendMessageStreaming: entry
\* Lines up to the creation of the provider query run without an await.
GateOpen_OffByOne(a) == a <= MAX_CONCURRENT_QUERIES

GateOpen(a) == a < MAX_CONCURRENT_QUERIES

SendCase(S, a) ==
    IF S.stopRequested THEN "cancelled"
    ELSE IF ~GateOpen(a) THEN "busy"
    ELSE "start"

\* The thinking budget of a send: a forced budget wins over the keywords.
ThinkingTokens(S, m) ==
    IF S.forceThinking # NoForce THEN S.forceThinking ELSE getThinkingLevel(m)

\* consumeHandoffContext(), called when the send finds no session id.
ConsumeHandoff(S) ==
    IF S.sessionId = NULL THEN [S EXCEPT !.handoffContext = NULL] ELSE S

\* The forced budget and the handoff context are used up before the stop
\* check and the gate.
SendSession(S, a, q) ==
    LET U == [ConsumeHandoff(S) EXCEPT !.forceThinking = NoForce] IN
    CASE SendCase(S, a) = "cancelled" -> [U EXCEPT !.stopRequested = FALSE]
      [] SendCase(S, a) = "busy" -> U
      [] SendCase(S, a) = "start" ->
            [U EXCEPT !.abortController = q, !.isQueryRunning = TRUE,
                      !.stopRequested = FALSE, !.queryStarted = TRUE,
                      !.currentTool = NULL, !.timeoutResponse = NULL,
                      !.sinceCheck = FALSE, !.freshDir = FALSE,
                      !.cleared = FALSE,
                      !.queryInstance = S.providerId]

SendCall(c, S, a) ==
    LET fresh == [c EXCEPT !.provQuery = FALSE, !.aborted = FALSE,
                           !.responseParts = <<>>, !.queryCompleted = FALSE,
                           !.askUserTriggered = FALSE, !.nEvents = 0,
                           !.heldEvent = NoEvent, !.outcome = "none",
                           !.error = NoError, !.result = NullText,
                           !.currentSegmentId = 0, !.currentSegmentText = <<>>,
                           !.resume = NULL, !.handoff = NULL,
                           !.thinkingTokens = ThinkingTokens(S, message)]
    IN CASE SendCase(S, a) = "cancelled" ->
                [fresh EXCEPT !.pc = "returned", !.outcome = "thrown",
                              !.error = ErrQueryCancelled]
         [] SendCase(S, a) = "busy" ->
                [fresh EXCEPT !.pc = "returned", !.outcome = "thrown",
                              !.error = ErrServerBusy]
         [] SendCase(S, a) = "start" ->
                [fresh EXCEPT !.pc = "running", !.provQuery = TRUE,
                              !.permissionMode =
                                  IF S.planMode THEN "plan"
                                  ELSE "bypassPermissions",
                              !.resume = S.sessionId,
                              !.handoff = IF S.sessionId = NULL
                                          THEN S.handoffContext ELSE NULL]

\* A handler calls sendMessageStreaming; S and c are the session and the call
\* as the handler's own code before the call left them.
Send(q, S, c) ==
    LET s == SessionOf(q)
        a == activeQueries
    IN /\ session' = [session EXCEPT ![s] = SendSession(S, a, q)]
       /\ activeQueries' = IF SendCase(S, a) = "start" THEN a + 1 ELSE a
       /\ sessionRunning' = IF SendCase(S, a) = "start" THEN TRUE ELSE sessionRunning
       /\ call' = [call EXCEPT ![q] = SendCall(c, S, a)]
       /\ obs' = [obs EXCEPT ![q] = FreshObs(@)]
       /\ pendingStop' = [pendingStop EXCEPT ![s] = FALSE]
       /\ UNCHANGED <<stopPc, outside>>

\* ------------------------------ sendMessageStreaming: catch, finally, return
HasEvidence(S, c) ==
    \/ c.queryCompleted
    \/ c.askUserTriggered
    \/ S.stopRequested
    \/ Len(c.responseParts) > 0

Suppressed_NeverExit(S, c, e) == e.cleanup /\ HasEvidence(S, c)

Suppressed_NoEvidence(S, c, e) == e.cleanup \/ (e.exit /\ HasEvidence(S, c))

\* The catch block swallows e.
Suppressed(S, c, e) ==
    LET canSuppressExitError == e.exit /\ HasEvidence(S, c)
    IN (e.cleanup \/ canSuppressExitError) /\ HasEvidence(S, c)

ForcedResponse_LastPart(S, c, e) ==
    IF /\ e # NoError
       /\ Suppressed(S, c, e)
       /\ e.exit /\ Len(c.responseParts) > 0 /\ ~c.queryCompleted
    THEN c.responseParts[Len(c.responseParts)]
    ELSE NullText

ForcedResponse(S, c, e) ==
    IF /\ e # NoError
       /\ Suppressed(S, c, e)
       /\ e.exit /\ Len(c.responseParts) > 0 /\ ~c.queryCompleted
    THEN Join(c.responseParts)
    ELSE NullText

FinalResponse_ForcedOnly(S, c, e) ==
    IF ForcedResponse(S, c, e) \notin {NullText, <<>>} THEN ForcedResponse(S, c, e)
    ELSE NoResponse

\* forcedResponse || responseParts.join("") || "No response from Claude."
\* (an empty string is falsy)
FinalResponse(S, c, e) ==
    IF ForcedResponse(S, c, e) \notin {NullText, <<>>} THEN ForcedResponse(S, c, e)
    ELSE IF Join(c.responseParts) # <<>> THEN Join(c.responseParts)
    ELSE NoResponse

Rethrown(S, c, e) == e # NoError /\ ~Suppressed(S, c, e)

Release_Forgotten(a) == a

\* Math.max(0, _activeQueries - 1)
Release(a) == IF a - 1 > 0 THEN a - 1 ELSE 0

CleanupSession_KeepsController(S) ==
    [S EXCEPT !.isQueryRunning = FALSE, !.queryStarted = FALSE,
              !.currentTool = NULL]

\* The finally block, as far as it touches the session.
CleanupSession(S) ==
    [S EXCEPT !.isQueryRunning = FALSE, !.abortController = 0,
              !.queryStarted = FALSE, !.currentTool = NULL]

Emit_Dropped(o, kind, text, seg) == o

\* statusCallback(kind, text, segmentId); a segment id of -1 is none given.
Emit(o, kind, text, seg) ==
    IF o.recording
    THEN [o EXCEPT !.log = Append(@, [kind |-> kind, text |-> text, seg |-> seg])]
    ELSE o

SegmentEnd_Never(c, o) == o

\* if (currentSegmentText) await statusCallback("segment_end", ...)
SegmentEnd(c, o) ==
    IF c.currentSegmentText # <<>>
    THEN Emit(o, "segment_end", c.currentSegmentText, c.currentSegmentId)
    ELSE o

\* The query of call q ends: error e was raised in the try block (NoError when
\* the loop ended or was left by break).  S, c: session and call at that point;
\* C: the calls as the same stretch of code left them; o: what was observed
\* of the call up to that point.
Finish(q, S, c, C, e, o) ==
    LET s == SessionOf(q)
        others == \E p \in Calls \ {q} : SessionOf(p) = s /\ InFlight(p)
        T == [CleanupSession(S) EXCEPT !.sinceCheck = @ /\ others]
        \* the callbacks of a return that does not throw
        completion == IF c.askUserTriggered THEN Emit(o, "done", <<>>, -1)
                      ELSE Emit(SegmentEnd(c, o), "done", <<>>, -1)
        done == [c EXCEPT !.pc = "returned", !.error = e, !.heldEvent = NoEvent,
                          !.nEvents = 0, !.aborted = FALSE,
                          !.responseParts = <<>>, !.currentSegmentId = 0,
                          !.currentSegmentText = <<>>, !.resume = NULL,
                          !.handoff = NULL]
    IN /\ activeQueries' = Release(activeQueries)
       /\ sessionRunning' = FALSE
       /\ obs' = [obs EXCEPT ![q] =
              [(IF Rethrown(S, c, e) THEN o ELSE completion)
                  EXCEPT !.stopSeen = FALSE, !.waited = NULL,
                         !.stale = FALSE]]
       /\ UNCHANGED outside
       /\ IF Rethrown(S, c, e)
          THEN /\ session' = [session EXCEPT ![s] =
                     [T EXCEPT !.lastError = e.kind, !.lastErrorTime = TRUE]]
               /\ call' = [C EXCEPT ![q] = [done EXCEPT !.outcome = "thrown"]]
          ELSE /\ session' = [session EXCEPT ![s] =
                     [T EXCEPT !.lastError = NULL, !.lastErrorTime = FALSE,
                               !.lastActivity = TRUE]]
               /\ call' = [C EXCEPT ![q] =
                     [done EXCEPT !.outcome = "resolved",
                                  !.result = IF c.askUserTriggered
                                             THEN WaitingForUser
                                             ELSE FinalResponse(S, c, e)]]

\* The loop goes on to await the next event.
Continue(q, S, c, o) ==
    /\ session' = [session EXCEPT ![SessionOf(q)] = S]
    /\ call' = [call EXCEPT ![q] = [c EXCEPT !.pc = "running", !.heldEvent = NoEvent]]
    /\ obs' = [obs EXCEPT ![q] = o]
    /\ UNCHANGED <<activeQueries, sessionRunning, outside>>

\* saveSession(): debounced, the write happens when the timer runs.
SaveSession_WritesThrough(S) ==
    IF S.sessionId = NULL THEN S
    ELSE [S EXCEPT !.pendingSave = FALSE, !.saveTimeout = NULL]

SaveSession(S) ==
    IF S.sessionId = NULL THEN S
    ELSE [S EXCEPT !.pendingSave = TRUE, !.saveTimeout = "pending",
                   !.saves = IF @ < MaxSaves THEN @ + 1 ELSE @]

\* The session id is taken from the first event that carries one.
CaptureSessionId(S, ev) ==
    IF S.sessionId = NULL /\ ev.session_id # NULL
    THEN SaveSession([S EXCEPT !.sessionId = ev.session_id])
    ELSE S

\* A user message with a uuid is a checkpoint for /undo.
PushCheckpoint(S, ev) ==
    IF ev.type = "user" /\ ev.uuid # NULL
    THEN [S EXCEPT !.userMessageUuids = Append(@, ev.uuid), !.echoes = @ + 1]
    ELSE S

SegmentKept(c) == c

\* "Segment ends when tool starts": the next text opens a new segment.
SegmentClosed(c) ==
    IF c.currentSegmentText # <<>>
    THEN [c EXCEPT !.currentSegmentId = @ + 1, !.currentSegmentText = <<>>]
    ELSE c

\* The error of a tool the safety checks reject, NoError for any other tool.
SafetyError(tool) ==
    CASE tool = "unsafe" -> ErrUnsafeBlocked
      [] tool = "denied" -> ErrFileBlocked(FALSE)
      [] tool = "deniedabort" -> ErrFileBlocked(TRUE)
      [] OTHER -> NoError

\* The body of the event loop below the cancel and timeout checks.  A text
\* update is throttled by the clock and by the length of the segment, both
\* left open here but for an empty segment, which is never long enough.
ProcessEvent(q, S, c, ev, o) ==
    LET R == PushCheckpoint(CaptureSessionId(S, ev), ev)
        \* currentTool = formatToolStatus(toolName, toolInput)
        T == [R EXCEPT !.currentTool = IF ev.tool \in {"askuser", "askmiss"}
                                       THEN "ask_user" ELSE "tool"]
        t == [c EXCEPT !.responseParts = Append(@, ev.text),
                       !.currentSegmentText = @ \o ev.text]
    IN
    CASE ev.type = "text" ->
            \E streamed \in BOOLEAN :
                /\ streamed => t.currentSegmentText # <<>>
                /\ Continue(q, R, t,
                       IF streamed
                       THEN Emit(o, "text", t.currentSegmentText,
                                 t.currentSegmentId)
                       ELSE o)
      [] ev.type = "result" ->
            Continue(q, R, [c EXCEPT !.queryCompleted = TRUE], o)
      [] ev.type = "tool" /\ SafetyError(ev.tool) # NoError ->
            Finish(q, R, c, call, SafetyError(ev.tool),
                   Emit(o, "tool",
                        IF ev.tool = "unsafe" THEN <<"BLOCKED">>
                        ELSE <<"Access denied">>, -1))
      [] ev.type = "tool" /\ ev.tool = "safe" ->
            Continue(q, T, SegmentClosed(c),
                     Emit(SegmentEnd(c, o), "tool", <<"display">>, -1))
      [] ev.type = "tool" /\ ev.tool = "askuser" ->
            Finish(q, T, [SegmentClosed(c) EXCEPT !.askUserTriggered = TRUE],
                   call, NoError, SegmentEnd(c, o))
      [] ev.type = "tool" /\ ev.tool = "askmiss" ->
            Continue(q, T, SegmentClosed(c), SegmentEnd(c, o))
      [] OTHER -> Continue(q, R, c, o)

\* The provider gives every user message a uuid of its own; the stack of
\* checkpoints is kept within MaxCheckpoints.
Deliverable(q, ev) ==
    LET stack == session[SessionOf(q)].userMessageUuids IN
    /\ Emits(session[SessionOf(q)].queryInstance, ev)
    /\ ev.type = "user" /\ ev.uuid # NULL =>
        /\ Len(stack) < MaxCheckpoints
        /\ \A i \in 1..Len(stack) : stack[i] # ev.uuid
        /\ undo[SessionOf(q)].pc = "rewinding" => undo[SessionOf(q)].target # ev.uuid

\* The events one query is given are kept within a bound, a wider one when
\* its status callbacks are recorded.
EventBound(o) == IF o.recording THEN MaxRecorded ELSE MaxEvents

\* ------------------------------------------------ the event loop, per event
\* The provider delivers an event while the cancel flag is set: break.
DeliverBreak(q) ==
    LET s == SessionOf(q) IN
    /\ call[q].pc = "running"
    /\ call[q].nEvents < EventBound(obs[q])
    /\ session[s].stopRequested
    /\ Finish(q, session[s], [call[q] EXCEPT !.nEvents = @ + 1], call, NoError,
              obs[q])
    /\ UNCHANGED <<stopPc, pendingStop>>

PromptDue_Always(S) == TRUE

\* elapsed > QUERY_TIMEOUT_MS && timeSinceLastCheck > QUERY_TIMEOUT_MS, where
\* elapsed is 0 without queryStarted and is never less than the time since
\* the last check, which query start resets.
PromptDue(S) == S.queryStarted /\ S.sinceCheck

\* Time passes: more than QUERY_TIMEOUT_MS since the last check.
IntervalElapses(s) ==
    /\ \E q \in Calls : SessionOf(q) = s /\ call[q].pc = "running"
    /\ ~session[s].sinceCheck
    /\ session' = [session EXCEPT ![s].sinceCheck = TRUE]
    /\ UNCHANGED <<activeQueries, sessionRunning, call, stopPc, pendingStop, obs, outside>>

DeliverTimeoutCheck_KeepsResponse(q, ev) ==
    LET s == SessionOf(q) IN
    /\ call[q].pc = "running"
    /\ call[q].nEvents < EventBound(obs[q])
    /\ ~session[s].stopRequested
    /\ Deliverable(q, ev)
    /\ PromptDue(session[s])
    /\ session' = [session EXCEPT ![s].sinceCheck = FALSE]
    /\ call' = [call EXCEPT ![q] = [@ EXCEPT !.pc = "timeoutwait",
                                             !.heldEvent = ev,
                                             !.nEvents = @ + 1]]
    /\ obs' = [obs EXCEPT ![q].stale = session[s].timeoutResponse # NULL]
    /\ UNCHANGED <<activeQueries, sessionRunning, stopPc, pendingStop, outside>>

\* The provider delivers an event and a timeout interval has elapsed: the
\* answer is reset, the user is prompted and the loop waits for the answer,
\* holding the event.
DeliverTimeoutCheck(q, ev) ==
    LET s == SessionOf(q) IN
    /\ call[q].pc = "running"
    /\ call[q].nEvents < EventBound(obs[q])
    /\ ~session[s].stopRequested
    /\ Deliverable(q, ev)
    /\ PromptDue(session[s])
    /\ session' = [session EXCEPT ![s].timeoutResponse = NULL,
                                  ![s].sinceCheck = FALSE]
    /\ call' = [call EXCEPT ![q] = [@ EXCEPT !.pc = "timeoutwait",
                                             !.heldEvent = ev,
                                             !.nEvents = @ + 1]]
    /\ obs' = [obs EXCEPT ![q].stale = session[s].timeoutResponse # NULL]
    /\ UNCHANGED <<activeQueries, sessionRunning, stopPc, pendingStop, outside>>

\* The provider delivers an event, no timeout prompt is due.
DeliverProcess(q, ev) ==
    LET s == SessionOf(q) IN
    /\ call[q].pc = "running"
    /\ call[q].nEvents < EventBound(obs[q])
    /\ ~session[s].stopRequested
    /\ Deliverable(q, ev)
    /\ ~PromptDue(session[s])
    /\ ProcessEvent(q, session[s], [call[q] EXCEPT !.nEvents = @ + 1], ev,
                    obs[q])
    /\ UNCHANGED <<stopPc, pendingStop>>

\* One turn of the wait loop that finds something to act on.
TimeoutPoll(q) ==
    LET s == SessionOf(q)
        S == session[s]
    IN /\ call[q].pc = "timeoutwait"
       /\ \/ /\ S.timeoutResponse = "abort"
             /\ Finish(q, S, AbortCurrent(call, S)[q], AbortCurrent(call, S),
                       ErrCancelledByUser, obs[q])
          \/ /\ S.timeoutResponse # "abort"
             /\ S.timeoutResponse = "continue" \/ S.stopRequested
             /\ ProcessEvent(q, [S EXCEPT !.timeoutResponse = NULL], call[q],
                             call[q].heldEvent,
                             [obs[q] EXCEPT !.waited = "resumed", !.stale = FALSE])
       /\ UNCHANGED <<stopPc, pendingStop>>

\* The wait window ends without the loop having seen an answer.
TimeoutExpire(q) ==
    LET s == SessionOf(q) IN
    /\ call[q].pc = "timeoutwait"
    /\ ProcessEvent(q, [session[s] EXCEPT !.timeoutResponse = NULL], call[q],
                    call[q].heldEvent, [obs[q] EXCEPT !.waited = "resumed", !.stale = FALSE])
    /\ UNCHANGED <<stopPc, pendingStop>>

\* The provider's stream ends.
StreamEnd(q) ==
    /\ call[q].pc = "running"
    /\ Finish(q, session[SessionOf(q)], call[q], call, NoError, obs[q])
    /\ UNCHANGED <<stopPc, pendingStop>>

\* The provider's stream throws.
StreamError(q, e) ==
    /\ call[q].pc = "running"
    /\ Finish(q, session[SessionOf(q)], call[q], call, e, obs[q])
    /\ UNCHANGED <<stopPc, pendingStop>>

\* handleTimeoutCallback: a timeout button is pressed.  A press while no query
\* is in flight is left out: the next query start overwrites it.
SetTimeoutResponse(s, r) ==
    /\ \E q \in Calls : SessionOf(q) = s /\ InFlight(q)
    /\ session[s].timeoutResponse # r
    /\ session' = [session EXCEPT ![s].timeoutResponse = r]
    /\ UNCHANGED <<activeQueries, sessionRunning, call, stopPc, pendingStop, obs, outside>>

\* The Codex worker has ended its output and exited with a code other than
\* zero, the signal of the query not aborted.
CodexExit(q, e) ==
    /\ call[q].pc = "running"
    /\ session[SessionOf(q)].queryInstance = "codex"
    /\ ~call[q].aborted
    /\ Finish(q, session[SessionOf(q)], call[q], call, e, obs[q])
    /\ UNCHANGED <<stopPc, pendingStop>>

\* ------------------------------------------------- Codex: flushTextDelta
\* text.startsWith(prev)
StartsWith(text, prev) ==
    Len(prev) <= Len(text) /\ SubSeq(text, 1, Len(prev)) = prev

Delta_Whole(prev, text) == text

\* text.startsWith(prev) ? text.slice(prev.length) : text
Delta(prev, text) ==
    IF StartsWith(text, prev) THEN SubSeq(text, Len(prev) + 1, Len(text))
    ELSE text

\* flushTextDelta(itemId, text, type) in the query of call q; the event, if
\* any, carries the delta.
FlushTextDelta(q, i, text) ==
    LET x == call[q].codex
        map == IF ItemType(i) = "text" THEN x.textByItemId
               ELSE x.thinkingByItemId
        prev == map[i]
        delta == Delta(prev, text)
        none == text = <<>> \/ delta = <<>>
        seen == [x EXCEPT !.latest[i] = text,
                          !.extending[i] = @ /\ StartsWith(text, x.latest[i]),
                          !.last = [text |-> text, prev |-> prev,
                                    delta |-> IF none THEN NullText ELSE delta]]
        kept == IF ItemType(i) = "text"
                THEN [seen EXCEPT !.textByItemId[i] = text]
                ELSE [seen EXCEPT !.thinkingByItemId[i] = text]
    IN /\ Len(x.emitted[i]) + Len(delta) <= MaxEmitted
       /\ call' = [call EXCEPT ![q].codex =
                     IF none THEN seen
                     ELSE [kept EXCEPT !.emitted[i] = @ \o delta]]
       /\ UNCHANGED <<session, activeQueries, sessionRunning, stopPc,
                      pendingStop, obs, outside>>

\* --------------------------------------------------------------- handlers
\* kill()
Kill_KeepsTotals(S) ==
    [S EXCEPT !.sessionId = NULL, !.lastActivity = FALSE, !.planMode = FALSE,
              !.forceThinking = NoForce, !.queryInstance = NULL,
              !.userMessageUuids = <<>>, !.echoes = 0, !.cleared = TRUE]

Kill(S) ==
    [S EXCEPT !.sessionId = NULL, !.lastActivity = FALSE,
              !.totalInputTokens = 0, !.totalOutputTokens = 0,
              !.totalCacheReadTokens = 0, !.planMode = FALSE,
              !.forceThinking = NoForce, !.queryInstance = NULL,
              !.userMessageUuids = <<>>, !.echoes = 0, !.cleared = TRUE]

\* Observation: kill() ran while an undo() waits for rewindFiles.
KillSeen(u) == IF u.pc = "rewinding" THEN [u EXCEPT !.reset = TRUE] ELSE u

StartProcessing(S) == [S EXCEPT !.isProcessing = TRUE]
StopProcessing(S) == [S EXCEPT !.isProcessing = FALSE]
MarkInterrupt(S) == [S EXCEPT !.wasInterrupted = TRUE]

ConsumeInterruptFlag(S) ==
    IF S.wasInterrupted
    THEN [S EXCEPT !.wasInterrupted = FALSE, !.stopRequested = FALSE]
    ELSE [S EXCEPT !.wasInterrupted = FALSE]

\* bot.ts: plain text messages are sequentialized; "!" messages, commands and
\* callback queries are not.
Sequentialized(q) ==
    \A p \in Calls \ {q} : SessionOf(p) = SessionOf(q) => call[p].kind # "text"

\* Handler invocations are interchangeable: a new one takes the lowest free
\* call id.
Free(q) ==
    /\ call[q].pc = "idle"
    /\ \A p \in Calls : p < q /\ SessionOf(p) = SessionOf(q) => call[p].pc # "idle"

\* handleText, plain message: startProcessing() and the first send.
BeginText(q) ==
    /\ Free(q)
    /\ Sequentialized(q)
    /\ Send(q, StartProcessing(session[SessionOf(q)]),
            [call[q] EXCEPT !.kind = "text"])

\* handleText, "!!" message: interrupt a running query, wait 100 ms, or send
\* at once when nothing is running.
BeginInterrupt(q) ==
    LET s == SessionOf(q) IN
    /\ Free(q)
    /\ IF isRunning(s)
       THEN /\ Stop(s, MarkInterrupt(session[s]),
                    [call EXCEPT ![q] = [@ EXCEPT !.kind = "interrupt",
                                                  !.pc = "sleep"]])
            /\ UNCHANGED stopPc
       ELSE Send(q, StartProcessing(session[s]),
                 [call[q] EXCEPT !.kind = "interrupt"])

\* handleAskUserCallback: a button answer interrupts a running query.
BeginButton(q) ==
    LET s == SessionOf(q) IN
    /\ Free(q)
    /\ IF isRunning(s)
       THEN /\ Stop(s, session[s],
                    [call EXCEPT ![q] = [@ EXCEPT !.kind = "button",
                                                  !.pc = "sleep"]])
            /\ UNCHANGED stopPc
       ELSE Send(q, session[s], [call[q] EXCEPT !.kind = "button"])

\* The 100 ms wait after stop() is over: the handler sends.
AfterSleep(q) ==
    LET s == SessionOf(q) IN
    /\ call[q].pc = "sleep"
    /\ IF call[q].kind = "interrupt"
       THEN Send(q, StartProcessing(session[s]), call[q])
       ELSE Send(q, session[s], call[q])

\* handleActionCallback: sends without looking at the session.
BeginAction(q) ==
    /\ Free(q)
    /\ Send(q, session[SessionOf(q)], [call[q] EXCEPT !.kind = "action"])

\* handleText: the second attempt after a crash.
RetrySend(q) ==
    /\ call[q].pc = "retrywait"
    /\ Send(q, session[SessionOf(q)], call[q])

\* The handlers test String(error) for "exited with code" and for "abort" or
\* "cancel": the errors modelled carry these substrings exactly when they carry
\* the ones the session tests for, but for the Codex worker's exit, whose
\* message always has "exited with code".
IsClaudeCodeCrash_AnyError(c) == c.outcome = "thrown"

IsClaudeCodeCrash(c) ==
    /\ c.outcome = "thrown"
    /\ c.error.exit \/ c.error \in CodexErrors
IsCancellation(c) == c.outcome = "thrown" /\ c.error.cleanup

\* sendMessageStreaming has returned or thrown: the rest of the handler.
HandlerReturn(q) ==
    LET s == SessionOf(q)
        c == call[q]
        S == session[s]
    IN /\ c.pc = "returned"
       /\ IF c.kind \in {"text", "interrupt"}
              /\ IsClaudeCodeCrash(c) /\ c.attempt < MAX_RETRIES
          THEN /\ call' = [call EXCEPT ![q] = [c EXCEPT !.pc = "retrywait",
                                                        !.attempt = @ + 1]]
               /\ session' = [session EXCEPT ![s] = Kill(S)]
               /\ undo' = [undo EXCEPT ![s] = KillSeen(@)]
               /\ UNCHANGED <<obs, pendingStop>>
          ELSE /\ call' = [call EXCEPT ![q] = NewCall]
               /\ UNCHANGED <<obs, undo>>
               /\ pendingStop' = [pendingStop EXCEPT ![s] =
                    IF c.kind \in {"text", "interrupt"} THEN FALSE ELSE @]
               /\ session' = [session EXCEPT ![s] =
                    CASE c.kind \in {"text", "interrupt"} ->
                           StopProcessing(IF IsCancellation(c)
                                          THEN ConsumeInterruptFlag(S) ELSE S)
                      [] c.kind = "button" ->
                           IF IsCancellation(c) THEN ConsumeInterruptFlag(S) ELSE S
                      [] OTHER -> S]
       /\ UNCHANGED <<activeQueries, sessionRunning, stopPc, message, disk>>

\* handleStop: stop(), then wait 100 ms when it found something to stop.
HandleStop(s) ==
    /\ stopPc[s] = "idle"
    /\ isRunning(s)
    /\ Stop(s, session[s], call)
    /\ stopPc' = [stopPc EXCEPT ![s] =
                    IF stopResult(session[s]) # "false" THEN "sleep" ELSE "idle"]

\* handleStop after the wait: clearStopRequested().
HandleStopClear(s) ==
    /\ stopPc[s] = "sleep"
    /\ session' = [session EXCEPT ![s].stopRequested = FALSE]
    /\ stopPc' = [stopPc EXCEPT ![s] = "idle"]
    /\ UNCHANGED <<activeQueries, sessionRunning, call, pendingStop, obs, outside>>

\* ------------------------------------------------------------------ /undo
NoActiveSession == "No active session to undo"
NoCheckpoints == "No checkpoints available"
RewindFailed == "Failed to undo"
Reverted == "Reverted file changes to checkpoint"

canUndo_StackOnly(S) == Len(S.userMessageUuids) > 0

\* canUndo getter
canUndo(S) == S.queryInstance # NULL /\ Len(S.userMessageUuids) > 0

Pop(stack) == SubSeq(stack, 1, Len(stack) - 1)

\* The catch block of undo(): the popped checkpoint is pushed again.
Restore(stack, uuid) == Append(stack, uuid)

RewindThrows_Never(provider) == FALSE

\* The Codex query fails rewindFiles() at once, on every call.
RewindThrows(provider) == provider = "codex"

\* handleUndo: the session is active and canUndo; the progress message is
\* sent before undo() is called.
HandleUndo(s) ==
    /\ undo[s].pc = "idle"
    /\ session[s].sessionId # NULL
    /\ canUndo(session[s])
    /\ undo' = [undo EXCEPT ![s] = [NewUndo EXCEPT !.pc = "replying"]]
    /\ UNCHANGED <<session, activeQueries, sessionRunning, call, stopPc,
                   pendingStop, obs, message, disk>>

\* undo() up to its await.  A rewindFiles() that throws at once rejects in
\* the same turn of the event loop: pop, throw and restore are one step.
UndoCall(s) ==
    LET S == session[s]
        stack == S.userMessageUuids
        u == [undo[s] EXCEPT !.before = stack]
    IN /\ undo[s].pc = "replying"
       /\ CASE S.queryInstance = NULL ->
                 /\ undo' = [undo EXCEPT ![s] =
                       [u EXCEPT !.pc = "idle", !.ok = FALSE, !.reply = NoActiveSession]]
                 /\ UNCHANGED session
            [] S.queryInstance # NULL /\ Len(stack) = 0 ->
                 /\ undo' = [undo EXCEPT ![s] =
                       [u EXCEPT !.pc = "idle", !.ok = FALSE, !.reply = NoCheckpoints]]
                 /\ UNCHANGED session
            [] S.queryInstance # NULL /\ Len(stack) > 0
                 /\ RewindThrows(S.queryInstance) ->
                 /\ undo' = [undo EXCEPT ![s] =
                       [u EXCEPT !.pc = "idle", !.ok = FALSE, !.reply = RewindFailed,
                                 !.target = stack[Len(stack)],
                                 !.by = S.queryInstance]]
                 /\ session' = [session EXCEPT ![s].userMessageUuids =
                                  Restore(Pop(stack), stack[Len(stack)])]
            [] OTHER ->
                 /\ undo' = [undo EXCEPT ![s] =
                       [u EXCEPT !.pc = "rewinding", !.target = stack[Len(stack)],
                                 !.by = S.queryInstance]]
                 /\ session' = [session EXCEPT ![s].userMessageUuids = Pop(stack)]
       /\ UNCHANGED <<activeQueries, sessionRunning, call, stopPc, pendingStop,
                      obs, message, disk>>

\* rewindFiles() of the Claude query resolves.
RewindOk(s) ==
    /\ undo[s].pc = "rewinding"
    /\ undo' = [undo EXCEPT ![s] = [@ EXCEPT !.pc = "idle", !.ok = TRUE,
                                              !.reply = Reverted]]
    /\ session' = [session EXCEPT ![s].echoes =
                     IF undo[s].reset THEN @ ELSE @ - 1]
    /\ UNCHANGED <<activeQueries, sessionRunning, call, stopPc, pendingStop,
                   obs, message, disk>>

\* rewindFiles() of the Claude query rejects.
RewindFails(s) ==
    /\ undo[s].pc = "rewinding"
    /\ undo' = [undo EXCEPT ![s] = [@ EXCEPT !.pc = "idle", !.ok = FALSE,
                                              !.reply = RewindFailed]]
    /\ session' = [session EXCEPT ![s].userMessageUuids =
                     Restore(@, undo[s].target)]
    /\ UNCHANGED <<activeQueries, sessionRunning, call, stopPc, pendingStop,
                   obs, message, disk>>

\* handleNew with nothing running: kill().
HandleNew(s) ==
    /\ ~isRunning(s)
    /\ session' = [session EXCEPT ![s] = Kill(@)]
    /\ undo' = [undo EXCEPT ![s] = KillSeen(@)]
    /\ UNCHANGED <<activeQueries, sessionRunning, call, stopPc, pendingStop,
                   obs, message, disk>>

\* setWorkingDir(), as handleCd calls it.
SetWorkingDir(S, d) ==
    [S EXCEPT !.workingDir = d, !.sessionId = NULL, !.freshDir = TRUE,
              !.cleared = TRUE]

\* handleHandoffCallback, "go": the last response becomes the handoff
\* context, then kill().  lastBotResponse is not followed: the press is one
\* that finds it set, as any press after an answered query does.
HandleHandoff(s) ==
    /\ session' = [session EXCEPT ![s] =
                      Kill([@ EXCEPT !.handoffContext = "summary"])]
    /\ undo' = [undo EXCEPT ![s] = KillSeen(@)]
    /\ UNCHANGED <<activeQueries, sessionRunning, call, stopPc, pendingStop,
                   obs, message, disk>>

\* setProvider(), as the provider button calls it.
HandleProvider(s, p) ==
    /\ ~isRunning(s)
    /\ session[s].providerId # p
    /\ session' = [session EXCEPT ![s] = [Kill(@) EXCEPT !.providerId = p]]
    /\ undo' = [undo EXCEPT ![s] = KillSeen(@)]
    /\ UNCHANGED <<activeQueries, sessionRunning, call, stopPc, pendingStop,
                   obs, message, disk>>

HandleCd(s, d) ==
    /\ session' = [session EXCEPT ![s] = SetWorkingDir(@, d)]
    /\ UNCHANGED <<activeQueries, sessionRunning, call, stopPc, pendingStop,
                   obs, message, disk, undo>>

\* ------------------------------------------------------------ SESSION_FILE
\* _doSaveSession() gets past its first line.  Bun.write is issued there and
\* not awaited; the file is taken to hold the data from then on.
DoSaveWrites(S) == S.sessionId # NULL /\ S.pendingSave

\* _doSaveSession(): the fields of the session afterwards ...
DoSaveSession(S) ==
    IF DoSaveWrites(S)
    THEN [S EXCEPT !.pendingSave = FALSE, !.saveTimeout = NULL, !.saves = 0]
    ELSE [S EXCEPT !.saves = 0]

WrittenFile_FirstDir(S) == Snapshot(SESSION_VERSION, S.sessionId, "d1")

\* ... the data it writes ...
WrittenFile(S) == Snapshot(SESSION_VERSION, S.sessionId, S.workingDir)

\* ... and the file afterwards.
DoSaveDisk(S, D) ==
    IF DoSaveWrites(S)
    THEN [exists |-> TRUE, file |-> WrittenFile(S), writes |-> D.writes + 1,
          covers |-> S.saves, timer |-> S.saveTimeout = "fired"]
    ELSE D

FlushPrepare_CancelOnly(S) ==
    [S EXCEPT !.saveTimeout = NULL, !.pendingSave = FALSE]

\* flushSession() up to its call of _doSaveSession().
FlushPrepare(S) ==
    [S EXCEPT !.saveTimeout = NULL,
              !.pendingSave = S.pendingSave \/ S.sessionId # NULL]

\* The number of writes is kept within MaxWrites.
CanWrite(S) == DoSaveWrites(S) => disk.writes < MaxWrites

\* The debounce timer of saveSession() runs _doSaveSession(); when that
\* returns on its first line the handle of the timer stays in _saveTimeout.
SaveTimerFires(s) ==
    LET T == [session[s] EXCEPT !.saveTimeout = "fired"] IN
    /\ session[s].saveTimeout = "pending"
    /\ CanWrite(T)
    /\ session' = [session EXCEPT ![s] = DoSaveSession(T)]
    /\ disk' = DoSaveDisk(T, disk)
    /\ UNCHANGED <<activeQueries, sessionRunning, call, stopPc, pendingStop,
                   obs, message, undo>>

\* handleBranchCallback once the worktree exists: flushSession(),
\* setWorkingDir(), kill().  isRunning was checked before the worktree was
\* made, a query may have started since.
HandleBranch(s, d) ==
    LET F == FlushPrepare(session[s]) IN
    /\ CanWrite(F)
    /\ session' = [session EXCEPT ![s] = Kill(SetWorkingDir(DoSaveSession(F), d))]
    /\ disk' = DoSaveDisk(F, disk)
    /\ undo' = [undo EXCEPT ![s] = KillSeen(@)]
    /\ UNCHANGED <<activeQueries, sessionRunning, call, stopPc, pendingStop,
                   obs, message>>

\* gracefulShutdown: flushSession() and exit; the next process starts from
\* the constructor's state and finds the file.
Restart(s) ==
    LET F == FlushPrepare(session[s]) IN
    /\ CanWrite(F)
    /\ disk' = DoSaveDisk(F, disk)
    /\ session' = [t \in Sessions |-> NewSession]
    /\ activeQueries' = 0
    /\ sessionRunning' = NULL
    /\ call' = [q \in Calls |-> NewCall]
    /\ stopPc' = [t \in Sessions |-> "idle"]
    /\ pendingStop' = [t \in Sessions |-> FALSE]
    /\ obs' = [q \in Calls |-> NewObs]
    /\ undo' = [t \in Sessions |-> NewUndo]
    /\ UNCHANGED message

Resumed == "Resumed session"

\* The checks of resumeLast(), in its order.
ResumeRefusal_NoDirCheck(S, D) ==
    LET f == D.file IN
    CASE ~D.exists -> "No saved session found"
      [] D.exists /\ f.session_id = NULL -> "Saved session file is empty"
      [] D.exists /\ f.session_id # NULL /\ f.version # SESSION_VERSION ->
            "Session version mismatch"
      [] OTHER -> NULL

ResumeRefusal(S, D) ==
    LET f == D.file IN
    CASE ~D.exists -> "No saved session found"
      [] D.exists /\ f.session_id = NULL -> "Saved session file is empty"
      [] D.exists /\ f.session_id # NULL /\ f.version # SESSION_VERSION ->
            "Session version mismatch"
      [] D.exists /\ f.session_id # NULL /\ f.version = SESSION_VERSION
           /\ f.working_dir # NULL /\ f.working_dir # S.workingDir ->
            "Session was for different directory"
      [] OTHER -> NULL

\* resumeLast()
ResumeLast(S, D) ==
    IF ResumeRefusal(S, D) = NULL
    THEN [S EXCEPT !.sessionId = D.file.session_id, !.lastActivity = TRUE,
                   !.resumeReply = Resumed, !.cleared = FALSE]
    ELSE [S EXCEPT !.resumeReply = ResumeRefusal(S, D)]

\* handleResume: only when no session is active.
HandleResume(s) ==
    /\ session[s].sessionId = NULL
    /\ session' = [session EXCEPT ![s] = ResumeLast(@, disk)]
    /\ UNCHANGED <<activeQueries, sessionRunning, call, stopPc, pendingStop,
                   obs, message, disk, undo>>

\* handlePlan: /plan toggles plan mode.
HandlePlan(s) ==
    /\ session' = [session EXCEPT ![s].planMode = ~@]
    /\ UNCHANGED <<activeQueries, sessionRunning, call, stopPc, pendingStop,
                   obs, outside>>

\* handleThink: the budget of the next message.
HandleThink(s, t) ==
    /\ session' = [session EXCEPT ![s].forceThinking = t]
    /\ UNCHANGED <<activeQueries, sessionRunning, call, stopPc, pendingStop,
                   obs, message, disk, undo>>

UndoSteps ==
    \/ \E s \in Sessions : HandleUndo(s)
    \/ \E s \in Sessions : UndoCall(s)
    \/ \E s \in Sessions : RewindOk(s)
    \/ \E s \in Sessions : RewindFails(s)

\* Steps of the handler invocations Q around their sends.
TextSteps(Q) ==
    \/ \E q \in Q : BeginText(q)
    \/ \E q \in Q : RetrySend(q)

InterruptSteps(Q) ==
    \/ \E q \in Q : BeginInterrupt(q)
    \/ \E q \in Q : BeginButton(q)
    \/ \E q \in Q : AfterSleep(q)

\* Steps of the queries of Q, with provider events drawn from E and provider
\* errors from X.
QuerySteps(Q, E, X) ==
    \/ \E q \in Q : DeliverBreak(q)
    \/ \E q \in Q, ev \in E : DeliverProcess(q, ev)
    \/ \E q \in Q : StreamEnd(q)
    \/ \E q \in Q, e \in X : StreamError(q, e)
    \/ \E q \in Q : HandlerReturn(q)

TimeoutSteps(Q, E) ==
    \/ \E q \in Q, ev \in E : DeliverTimeoutCheck(q, ev)
    \/ \E q \in Q : TimeoutPoll(q)
    \/ \E q \in Q : TimeoutExpire(q)
    \/ \E s \in Sessions : IntervalElapses(s)
    \/ \E s \in Sessions, r \in {"continue", "abort"} : SetTimeoutResponse(s, r)

StopSteps ==
    \/ \E s \in Sessions : HandleStop(s)
    \/ \E s \in Sessions : HandleStopClear(s)

\* One handler invocation at a time, every event and every error.
Next ==
    \/ TextSteps({1})
    \/ BeginAction(1)
    \/ QuerySteps({1}, StreamEvents, ProviderErrors)
    \/ TimeoutSteps({1}, StreamEvents)
    \/ StopSteps

Spec == Init /\ [][Next]_vars

\* Concurrent handler invocations; the text of an event is left out.
CoarseEvents == {ev \in StreamEvents : ev.text = <<"a">> \/ ev.tool = "unsafe"}
CoarseErrors == {e \in ProviderErrors : e.exit /\ ~e.cleanup}

ConcNext ==
    \/ TextSteps(Calls)
    \/ \E q \in Calls : BeginAction(q)
    \/ QuerySteps(Calls, CoarseEvents, CoarseErrors)
    \/ StopSteps

ConcSpec == Init /\ [][ConcNext]_vars

\* A handler invocation and a second one that interrupts it ("!!" message or
\* ask-user button), which bot.ts does not sequentialize.
IntNext ==
    \/ TextSteps({1})
    \/ BeginAction(1)
    \/ InterruptSteps({2})
    \/ QuerySteps({1, 2}, CoarseEvents, ProviderErrors)

IntSpec == Init /\ [][IntNext]_vars

\* Checkpoints and /undo: one handler invocation whose query reports user
\* messages, /undo, /new and /cd; AGENT_PROVIDER selects the provider.
CkptEvents ==
    {ev \in IdentifiedResults : ev.session_id = "s1"} \cup UserEvents

CkptInit ==
    /\ \E p \in Providers :
          session = [s \in Sessions |-> [NewSession EXCEPT !.providerId = p]]
    /\ activeQueries = 0
    /\ sessionRunning = NULL
    /\ call = [q \in Calls |-> NewCall]
    /\ stopPc = [s \in Sessions |-> "idle"]
    /\ pendingStop = [s \in Sessions |-> FALSE]
    /\ obs = [q \in Calls |-> NewObs]
    /\ message = PlainMessage
    /\ disk = NewDisk
    /\ undo = [s \in Sessions |-> NewUndo]

CkptNext ==
    \/ BeginText(1)
    \/ \E ev \in CkptEvents : DeliverProcess(1, ev)
    \/ StreamEnd(1)
    \/ HandlerReturn(1)
    \/ UndoSteps
    \/ \E s \in Sessions : HandleNew(s)
    \/ \E s \in Sessions, d \in Dirs : HandleCd(s, d)
    \/ \E s \in Sessions, p \in Providers : HandleProvider(s, p)

CkptSpec == CkptInit /\ [][CkptNext]_vars

\* The session file: what an earlier process, of this or an older version,
\* may have left behind.
Versions == {0, SESSION_VERSION}
OldFiles ==
    {Snapshot(v, id, d) : v \in Versions, id \in {NULL, "s1"},
                          d \in Dirs \cup {NULL}}

PersistInit ==
    /\ session = [s \in Sessions |-> NewSession]
    /\ activeQueries = 0
    /\ sessionRunning = NULL
    /\ call = [q \in Calls |-> NewCall]
    /\ stopPc = [s \in Sessions |-> "idle"]
    /\ pendingStop = [s \in Sessions |-> FALSE]
    /\ obs = [q \in Calls |-> NewObs]
    /\ message = PlainMessage
    /\ disk \in {NewDisk} \cup [exists : {TRUE}, file : OldFiles, writes : {0}, covers : {0},
                            timer : {FALSE}]
    /\ undo = [s \in Sessions |-> NewUndo]

PersistNext ==
    \/ BeginText(1)
    \/ \E ev \in SystemEvents : DeliverProcess(1, ev)
    \/ StreamEnd(1)
    \/ HandlerReturn(1)
    \/ \E s \in Sessions : SaveTimerFires(s)
    \/ \E s \in Sessions : HandleNew(s)
    \/ \E s \in Sessions, d \in Dirs : HandleCd(s, d)
    \/ \E s \in Sessions, d \in Dirs : HandleBranch(s, d)
    \/ \E s \in Sessions : HandleResume(s)
    \/ \E s \in Sessions : Restart(s)

PersistSpec == PersistInit /\ [][PersistNext]_vars

\* The thinking budget: any message, and /think before it.
ThinkInit ==
    /\ session = [s \in Sessions |-> NewSession]
    /\ activeQueries = 0
    /\ sessionRunning = NULL
    /\ call = [q \in Calls |-> NewCall]
    /\ stopPc = [s \in Sessions |-> "idle"]
    /\ pendingStop = [s \in Sessions |-> FALSE]
    /\ obs = [q \in Calls |-> NewObs]
    /\ message \in Messages
    /\ disk = NewDisk
    /\ undo = [s \in Sessions |-> NewUndo]

ThinkNext ==
    \/ BeginText(1)
    \/ StreamEnd(1)
    \/ HandlerReturn(1)
    \/ \E s \in Sessions, t \in ThinkingLevels : HandleThink(s, t)

ThinkSpec == ThinkInit /\ [][ThinkNext]_vars

\* The provider's stream is finite and every pull on it returns, and the wait
\* for a timeout answer is bounded by TIMEOUT_PROMPT_WAIT_MS: a query in flight
\* keeps taking steps.
\* The status callbacks of one query, recorded: every block and every way a
\* stream ends, /stop included.
StatusEvents ==
    {ev \in StreamEvents : ev.type = "text" => ev.text \in {<<>>, <<"a">>}}

StatusInit ==
    /\ session = [s \in Sessions |-> NewSession]
    /\ activeQueries = 0
    /\ sessionRunning = NULL
    /\ call = [q \in Calls |-> NewCall]
    /\ stopPc = [s \in Sessions |-> "idle"]
    /\ pendingStop = [s \in Sessions |-> FALSE]
    /\ obs = [q \in Calls |-> [NewObs EXCEPT !.recording = TRUE]]
    /\ message = PlainMessage
    /\ disk = NewDisk
    /\ undo = [s \in Sessions |-> NewUndo]

StatusNext ==
    \/ BeginAction(1)
    \/ QuerySteps({1}, StatusEvents, ProviderErrors)
    \/ StopSteps

StatusSpec == StatusInit /\ [][StatusNext]_vars

\* A session that has been used: it has answered queries with usage, it may
\* hold a session id, checkpoints, modes, a model choice, queued messages.
UsedSessions ==
    {[NewSession EXCEPT !.sessionId = id, !.lastActivity = id # NULL,
                        !.queryInstance = IF id = NULL THEN NULL ELSE "claude",
                        !.totalInputTokens = 1, !.totalOutputTokens = 1,
                        !.totalCacheReadTokens = 1,
                        !.planMode = p, !.forceThinking = f,
                        !.currentModel = m, !.pendingMessages = pm,
                        !.userMessageUuids = st, !.echoes = Len(st)] :
        id \in {NULL, "s1"}, p \in BOOLEAN, f \in {NoForce, 10000},
        m \in {"sonnet", "opus"}, pm \in {<<>>, <<"m">>},
        st \in {<<>>, <<"u1">>}}

FrameEvents ==
    {ev \in SystemEvents \cup IdentifiedResults : ev.session_id = "s2"}
        \cup {ev \in TextEvents : ev.text = <<"a">>}

FrameInit ==
    /\ session \in [Sessions -> UsedSessions]
    /\ activeQueries = 0
    /\ sessionRunning = NULL
    /\ call = [q \in Calls |-> NewCall]
    /\ stopPc = [s \in Sessions |-> "idle"]
    /\ pendingStop = [s \in Sessions |-> FALSE]
    /\ obs = [q \in Calls |-> NewObs]
    /\ message = PlainMessage
    /\ disk = NewDisk
    /\ undo = [s \in Sessions |-> NewUndo]

\* /new, /cd and the handoff button around the queries of one text handler.
FrameNext ==
    \/ TextSteps({1})
    \/ QuerySteps({1}, FrameEvents, CoarseErrors)
    \/ StopSteps
    \/ \E s \in Sessions : HandleNew(s)
    \/ \E s \in Sessions, d \in Dirs : HandleCd(s, d)
    \/ \E s \in Sessions : HandleHandoff(s)

FrameSpec == FrameInit /\ [][FrameNext]_vars

\* A text message and its retry after a crash, on either provider, with
\* /plan and /stop.
CrashNext ==
    \/ TextSteps({1})
    \/ QuerySteps({1}, CoarseEvents \cup (CkptEvents \ UserEvents),
                  ProviderErrors)
    \/ \E e \in CodexErrors : CodexExit(1, e)
    \/ StopSteps
    \/ \E s \in Sessions : HandlePlan(s)

CrashSpec == CkptInit /\ [][CrashNext]_vars

\* The snapshots of the items of one Codex query, in any order.
DeltaNext == \E i \in Items, text \in Snapshots : FlushTextDelta(1, i, text)

DeltaSpec == Init /\ [][DeltaNext]_vars

QueryProgress(q) ==
    \/ DeliverBreak(q)
    \/ \E ev \in StreamEvents : DeliverProcess(q, ev)
    \/ \E ev \in StreamEvents : DeliverTimeoutCheck(q, ev)
    \/ StreamEnd(q)
    \/ \E e \in ProviderErrors : StreamError(q, e)
    \/ TimeoutPoll(q)
    \/ TimeoutExpire(q)

FairSpec == Spec /\ WF_vars(QueryProgress(1))

TypeOK ==
    /\ activeQueries \in Nat
    /\ \A q \in Calls : call[q].pc \in
          {"idle", "sleep", "running", "timeoutwait", "returned", "retrywait"}

\* ------------------------------------------------------------- properties
\* A step in which call q enters sendMessageStreaming.
SendStep(q) ==
    /\ call[q].pc \in {"idle", "sleep", "retrywait"}
    /\ call'[q].pc \in {"running", "returned"}

\* A step in which the query of call q leaves the try block.
EndStep(q) ==
    /\ call[q].pc \in {"running", "timeoutwait"}
    /\ call'[q].pc = "returned"

\* C1: the active-query counter stays within [0, MAX_CONCURRENT_QUERIES] and
\* always equals the number of queries in flight, whichever way they end.
C1_ActiveQueriesCountsInFlight ==
    /\ activeQueries \in 0..MAX_CONCURRENT_QUERIES
    /\ activeQueries = Cardinality({q \in Calls : InFlight(q)})

\* The gate is full and one query has already ended by a thrown error.
C1_Witness ==
    /\ activeQueries = MAX_CONCURRENT_QUERIES
    /\ \E q \in Calls : /\ call[q].pc = "returned"
                        /\ call[q].provQuery
                        /\ call[q].outcome = "thrown"

\* C2: no two sendMessageStreaming calls of one session are in flight at the
\* same time.
C2_OneQueryPerSession ==
    \A p, q \in Calls :
        p # q /\ SessionOf(p) = SessionOf(q) => ~(InFlight(p) /\ InFlight(q))

\* C3: a send that reaches the gate starts its query iff the counter is below
\* the maximum; otherwise it throws "Server busy" in the same step, with no
\* provider query created and the counter untouched.
C3_AdmissionNeverQueues ==
    [][\A q \in Calls :
         SendStep(q) /\ call'[q].error # ErrQueryCancelled =>
            IF activeQueries < MAX_CONCURRENT_QUERIES
            THEN /\ call'[q].pc = "running"
                 /\ call'[q].provQuery
                 /\ activeQueries' = activeQueries + 1
            ELSE /\ call'[q].pc = "returned"
                 /\ call'[q].outcome = "thrown"
                 /\ call'[q].error = ErrServerBusy
                 /\ ~call'[q].provQuery
                 /\ activeQueries' = activeQueries]_vars

\* A send was rejected while MAX_CONCURRENT_QUERIES queries are in flight.
C3_Witness ==
    /\ activeQueries = MAX_CONCURRENT_QUERIES
    /\ \E q \in Calls : /\ call[q].pc = "returned"
                        /\ call[q].error = ErrServerBusy

\* C4: every query that started reaches its cleanup, and right after the
\* cleanup isQueryRunning is false, abortController, queryStarted and
\* currentTool are null and sessionRunning(false) is the last emission.
C4_CleanupOnEveryExit ==
    /\ \A q \in Calls : InFlight(q) ~> ~InFlight(q)
    /\ [][\A q \in Calls :
            EndStep(q) =>
               /\ ~session'[SessionOf(q)].isQueryRunning
               /\ session'[SessionOf(q)].abortController = 0
               /\ ~session'[SessionOf(q)].queryStarted
               /\ session'[SessionOf(q)].currentTool = NULL
               /\ sessionRunning' = FALSE]_vars

\* The cleanup has run on the exit path of a safety block.
C4_Witness ==
    /\ call[1].pc = "returned"
    /\ call[1].error = ErrUnsafeBlocked
    /\ ~session[1].isQueryRunning
    /\ session[1].abortController = 0

\* C5: after stop() answered "pending", the next sendMessageStreaming call
\* throws "Query cancelled", creates no provider query, takes no slot and
\* clears the stop flag.
C5_PendingStopCancelsNextSend ==
    [][\A q \in Calls :
         SendStep(q) /\ pendingStop[SessionOf(q)] =>
            /\ call'[q].pc = "returned"
            /\ call'[q].error = ErrQueryCancelled
            /\ ~call'[q].provQuery
            /\ activeQueries' = activeQueries
            /\ ~session'[SessionOf(q)].stopRequested]_vars

\* C6: once stop() has set the flag while the query is Running, no event that
\* the provider delivers afterwards gets past the cancel check.
C6_NoEventProcessedAfterStop ==
    [][\A q \in Calls :
         obs[q].stopSeen =>
            ~ \E ev \in StreamEvents :
                 DeliverProcess(q, ev) \/ DeliverTimeoutCheck(q, ev)]_vars

\* C7: a query that ends because the loop saw the stop flag makes
\* sendMessageStreaming throw a cancellation error.
C7_StopEndsCancelled ==
    [][\A q \in Calls :
         DeliverBreak(q) =>
            /\ call'[q].outcome = "thrown"
            /\ call'[q].error.cleanup]_vars

\* C8: an exit-type error raised after a Result event is swallowed: the call
\* resolves and lastError stays unset.
C8_ExitAfterResultResolves ==
    [][\A q \in Calls :
         EndStep(q) /\ call'[q].error.exit /\ call[q].queryCompleted =>
            /\ call'[q].outcome = "resolved"
            /\ session'[SessionOf(q)].lastError = NULL
            /\ ~session'[SessionOf(q)].lastErrorTime]_vars

\* The call resolved although the provider exited after the Result event.
C8_Witness ==
    /\ call[1].pc = "returned"
    /\ call[1].error.exit
    /\ call[1].queryCompleted
    /\ call[1].outcome = "resolved"

\* C9: a swallowed exit-type error with no Result event and partial text makes
\* the call return the concatenation of the text deltas received.
C9_ForcedPartialResponse ==
    [][\A q \in Calls :
         /\ EndStep(q)
         /\ call'[q].error.exit
         /\ call'[q].outcome = "resolved"
         /\ ~call[q].queryCompleted
         /\ Join(call[q].responseParts) # <<>>
         => call'[q].result = Join(call[q].responseParts)]_vars

\* Two deltas came, then the provider exited without a Result event.
C9_Witness ==
    /\ call[1].pc = "returned"
    /\ call[1].error.exit
    /\ ~call[1].queryCompleted
    /\ call[1].outcome = "resolved"
    /\ call[1].result = <<"a", "b">>

\* Completion evidence at the time an error is caught.
Evidence(q) ==
    \/ call[q].queryCompleted
    \/ call[q].askUserTriggered
    \/ session[SessionOf(q)].stopRequested
    \/ call[q].responseParts # <<>>

Fatal(q) ==
    /\ call'[q].outcome = "thrown"
    /\ session'[SessionOf(q)].lastError = call'[q].error.kind
    /\ session'[SessionOf(q)].lastErrorTime

\* C10 as stated: every error that is not an exit-type error with completion
\* evidence is recorded on the session and re-thrown.
C10_NonBenignIsFatal ==
    [][\A q \in Calls :
         /\ EndStep(q)
         /\ call'[q].error # NoError
         /\ ~(call'[q].error.exit /\ Evidence(q))
         => Fatal(q)]_vars

\* C10 amended: an error is recorded and re-thrown exactly when there is no
\* completion evidence, or when it is neither exit-type nor cancel/abort-type;
\* a cancel/abort-type error with completion evidence is swallowed like an
\* exit-type one.
C10_FatalErrors ==
    [][\A q \in Calls :
         EndStep(q) /\ call'[q].error # NoError =>
            (Fatal(q) <=>
                \/ ~Evidence(q)
                \/ ~call'[q].error.exit /\ ~call'[q].error.cleanup)]_vars

\* A provider error that is neither exit-type nor cancel/abort-type came after
\* a Result event, and was recorded and re-thrown.
C10_Witness ==
    /\ call[1].pc = "returned"
    /\ call[1].queryCompleted
    /\ call[1].outcome = "thrown"
    /\ call[1].error = [kind |-> "provider", exit |-> FALSE, cleanup |-> FALSE]
    /\ session[1].lastError = "provider"
    /\ session[1].lastErrorTime

\* C11 as stated: when a Result event came before the stream ended, the text
\* returned is the concatenation of the text deltas received, in order.
C11_ResultTextIsConcatenation ==
    [][\A q \in Calls :
         /\ EndStep(q)
         /\ call[q].queryCompleted
         /\ call'[q].outcome = "resolved"
         => call'[q].result = Join(call[q].responseParts)]_vars

\* C11 amended: after a Result event the text returned is the concatenation of
\* the text deltas received when that is not empty, the placeholder when it is
\* empty, and the waiting sentinel when the ask-user tool was triggered.
C11_ResultText ==
    [][\A q \in Calls :
         /\ EndStep(q)
         /\ call[q].queryCompleted
         /\ call'[q].outcome = "resolved"
         => call'[q].result =
               IF call'[q].askUserTriggered THEN WaitingForUser
               ELSE IF Join(call[q].responseParts) # <<>>
                    THEN Join(call[q].responseParts)
                    ELSE NoResponse]_vars

\* A query with a Result event and no text returned the placeholder.
C11_Witness ==
    /\ call[1].pc = "returned"
    /\ call[1].queryCompleted
    /\ call[1].outcome = "resolved"
    /\ call[1].error = NoError
    /\ call[1].result = NoResponse

\* A step in which undo() of session s pops a checkpoint.
PopStep(s) ==
    /\ undo[s].pc = "replying"
    /\ undo'[s].target # NULL

\* A step in which undo() of session s returns "Failed to undo".
UndoFailedStep(s) ==
    /\ undo[s].pc \in {"replying", "rewinding"}
    /\ undo'[s].pc = "idle"
    /\ undo'[s].reply = RewindFailed

\* C12: undo() targets the checkpoint pushed last, and when rewindFiles
\* throws, the stack it leaves is the stack it found (same length, same
\* order), with the popped checkpoint on top for the next undo().
C12_UndoIsRetrySafe ==
    [][\A s \in Sessions :
         /\ PopStep(s) =>
               undo'[s].target = session[s].userMessageUuids[Len(session[s].userMessageUuids)]
         /\ UndoFailedStep(s) =>
               /\ session'[s].userMessageUuids = undo'[s].before
               /\ session'[s].userMessageUuids[Len(session'[s].userMessageUuids)]
                     = undo'[s].target]_vars

\* A step in which undo() of session s runs up to its return or its await.
UndoCallStep(s) ==
    /\ undo[s].pc = "replying"
    /\ undo'[s].pc # "replying"

\* The witness below: undo() was called with canUndo false and has returned.
C13_Witness ==
    /\ undo[1].pc = "idle"
    /\ undo[1].reply = NoActiveSession
    /\ undo[1].by = NULL
    /\ ~undo[1].ok
    /\ ~canUndo(session[1])

\* C13: canUndo is true iff a query instance is attached and the stack holds
\* a checkpoint; undo() called with canUndo false, and only then, fails
\* without calling rewindFiles and leaves the stack alone, with "No active
\* session" when no instance is attached and "No checkpoints" when the stack
\* is empty.
C13_CanUndoGuardsUndo ==
    [][\A s \in Sessions :
         LET S == session[s]
             refused == undo'[s].by = NULL
         IN /\ canUndo(S) <=> (S.queryInstance \in Providers
                                 /\ Len(S.userMessageUuids) >= 1)
            /\ UndoCallStep(s) =>
                  /\ refused <=> ~canUndo(S)
                  /\ refused =>
                        /\ undo'[s].pc = "idle" /\ ~undo'[s].ok
                        /\ session'[s].userMessageUuids = S.userMessageUuids
                        /\ undo'[s].reply =
                              IF S.queryInstance = NULL THEN NoActiveSession
                              ELSE NoCheckpoints
                  /\ ~refused => undo'[s].reply \notin {NoActiveSession, NoCheckpoints}]_vars

\* C14: outside an undo() that waits for rewindFiles, the stack is as long
\* as the number of user messages with a uuid seen since the last kill(),
\* less those a successful undo() has taken back.
C14_StackCountsUserEchoes ==
    \A s \in Sessions :
        undo[s].pc # "rewinding" =>
            Len(session[s].userMessageUuids) = session[s].echoes

\* A step in which undo() of session s returns, its query being Codex's.
CodexUndoReturns(s) ==
    /\ undo[s].pc \in {"replying", "rewinding"}
    /\ undo'[s].pc = "idle"
    /\ undo'[s].by = "codex"

\* The witness below: undo() has called rewindFiles on a Codex query.
C15_Witness ==
    /\ undo[1].pc = "idle"
    /\ undo[1].by = "codex"
    /\ undo[1].reply = RewindFailed
    /\ session[1].userMessageUuids = undo[1].before
    /\ undo[1].before # <<>>

\* C15: rewindFiles of the Codex provider throws on every call, so undo()
\* on a Codex query always reports failure and leaves the stack as it
\* found it.
C15_CodexUndoAlwaysFails ==
    [][\A s \in Sessions :
         /\ UndoCallStep(s) /\ session[s].queryInstance = "codex"
              => undo'[s].pc = "idle" /\ ~undo'[s].ok
         /\ CodexUndoReturns(s) =>
              /\ ~undo'[s].ok
              /\ undo'[s].reply = RewindFailed
              /\ session'[s].userMessageUuids = undo'[s].before]_vars

\* A step in which the event loop of session s calls saveSession().
SaveStep(s) ==
    /\ session[s].sessionId = NULL
    /\ session'[s].sessionId # NULL
    /\ \E q \in Calls : SessionOf(q) = s /\ call'[q].nEvents = call[q].nEvents + 1

\* A step in which the debounce timer of session s expires.
TimerStep(s) ==
    /\ session[s].saveTimeout = "pending"
    /\ \/ session'[s].saveTimeout = "fired"
       \/ session'[s].saveTimeout = NULL /\ session'[s].sessionId # NULL

\* C16 as stated: the saveSession() calls of one debounce window write
\* nothing themselves and leave one timer, and its expiry writes the file
\* exactly once.
C16_OneWritePerWindow ==
    [][\A s \in Sessions :
         /\ SaveStep(s) =>
               disk' = disk /\ session'[s].saveTimeout = "pending"
         /\ TimerStep(s) => disk'.writes = disk.writes + 1]_vars

\* C16 amended: ... and its expiry writes the file exactly once when the
\* session still has an id, and not at all when kill() or setWorkingDir()
\* has cleared it since the last call.
C16_OneWritePerWindowWithId ==
    [][\A s \in Sessions :
         /\ SaveStep(s) =>
               disk' = disk /\ session'[s].saveTimeout = "pending"
         /\ TimerStep(s) =>
               /\ disk'.writes = disk.writes +
                     (IF session[s].sessionId # NULL THEN 1 ELSE 0)
               /\ session[s].sessionId # NULL => disk'.covers = session[s].saves
               /\ session'[s].saveTimeout # "pending"
               /\ session'[s].saves = 0]_vars

\* The witness below: one write has made good two saveSession() calls.
C16_Witness ==
    /\ disk.writes = 1
    /\ disk.covers = 2
    /\ disk.timer
    /\ session[1].saveTimeout = NULL
    /\ session[1].sessionId # NULL
    /\ disk.file.session_id = session[1].sessionId

\* A step in which flushSession() of session s finds the timer pending.
FlushStep(s) ==
    /\ session[s].saveTimeout = "pending"
    /\ session'[s].saveTimeout = NULL
    /\ session'[s].sessionId = NULL

\* C17 as stated: flushSession() with a debounced save pending writes the
\* file in the same step and leaves no timer behind.
C17_FlushWritesAtOnce ==
    [][\A s \in Sessions :
         FlushStep(s) =>
            /\ disk'.writes = disk.writes + 1
            /\ session'[s].saveTimeout # "pending"]_vars

\* C17 amended: ... writes the file in the same step when the session still
\* has an id, writes nothing when the id was cleared after the save, and in
\* both cases leaves no timer behind.
C17_FlushWritesAtOnceWithId ==
    [][\A s \in Sessions :
         FlushStep(s) =>
            /\ disk'.writes = disk.writes +
                  (IF session[s].sessionId # NULL THEN 1 ELSE 0)
            /\ session[s].sessionId # NULL =>
                  /\ disk'.file = WrittenFile(session[s])
                  /\ ~disk'.timer
            /\ session'[s].saveTimeout # "pending"]_vars

\* The witness below: flushSession() has written a save that was pending.
C17_Witness ==
    /\ disk.writes = 1
    /\ disk.covers >= 1
    /\ ~disk.timer
    /\ session[1].saveTimeout = NULL

\* The witness below: a session in the second directory has been written.
C18_Witness ==
    /\ disk.writes >= 1
    /\ disk.exists
    /\ disk.file = Snapshot(SESSION_VERSION, "s2", "d2")

\* C18: the session file is written only when sessionId is non-null, and
\* what is written is the sessionId and the workingDir of that moment.
C18_WritesOnlyWithSessionId ==
    [][disk' # disk =>
         \E s \in Sessions :
            /\ session[s].sessionId \in SessionIds
            /\ disk'.exists
            /\ disk'.writes = disk.writes + 1
            /\ disk'.file = [version |-> SESSION_VERSION,
                              session_id |-> session[s].sessionId,
                              working_dir |-> session[s].workingDir]]_vars

\* A step in which resumeLast() of session s returns something new.
ResumeStep(s) == session'[s].resumeReply \notin {NULL, session[s].resumeReply}

\* What a resume must leave alone when it refuses.
Untouched(s) ==
    /\ session'[s].sessionId = session[s].sessionId
    /\ session'[s].lastActivity = session[s].lastActivity
    /\ session'[s].workingDir = session[s].workingDir

Holds(k) == Includes(ToLowerCase(message), k)

\* The witness below: "THINK hard" was sent with nothing forced.
C20_Witness ==
    /\ message = <<"x", "THINK", " hard">>
    /\ call[1].pc = "running"
    /\ call[1].thinkingTokens = 50000
    /\ session[1].forceThinking = NoForce

\* C20: a send takes the forced budget when one is set, whatever the
\* message says, and the forced budget is gone afterwards; otherwise a deep
\* keyword gives 50000 even where a normal keyword is found too, a normal
\* keyword alone gives 10000, and no keyword gives 0.
C20_ThinkingBudget ==
    [][\A q \in Calls :
         SendStep(q) =>
            LET forced == session[SessionOf(q)].forceThinking
                deep == Holds(<<"ultra", "think">>) \/ Holds(<<"think", " hard">>)
                          \/ Holds(<<"pensa", " bene">>)
                normal == Holds(<<"think">>) \/ Holds(<<"pensa">>)
            IN /\ session'[SessionOf(q)].forceThinking = NoForce
               /\ call'[q].thinkingTokens =
                     IF forced \in ThinkingLevels THEN forced
                     ELSE IF deep THEN 50000
                     ELSE IF normal THEN 10000
                     ELSE 0]_vars

\* ------------------------------------------------------ the timeout prompt
\* C21: a wait for the answer to a timeout prompt that ends on "continue", or
\* on no answer when the window expires, goes on to process the held event as
\* any event is processed, and throws nothing of its own; the answer is
\* cleared.  The wait always ends.  A prompt is issued only when more than an
\* interval has passed since the last check, and issuing it restarts the
\* interval.
C21_TimeoutPromptResumes ==
  /\ (call[1].pc = "timeoutwait") ~> (call[1].pc # "timeoutwait")
  /\ [][
    LET held == call[1].heldEvent
        \* a blocked tool and an ask-user tool end the query by themselves
        endsQuery ==
            /\ held.type = "tool"
            /\ SafetyError(held.tool) # NoError \/ held.tool = "askuser"
        waitOver == call[1].pc = "timeoutwait" /\ call'[1].pc # "timeoutwait"
        prompt == call[1].pc = "running" /\ call'[1].pc = "timeoutwait"
        resumes ==
            waitOver /\ session[1].timeoutResponse # "abort" =>
                /\ call'[1].error # ErrCancelledByUser
                /\ session'[1].timeoutResponse = NULL
                /\ ~endsQuery =>
                      /\ call'[1].pc = "running"
                      /\ call'[1].outcome = "none"
                /\ held.type = "text" =>
                      call'[1].responseParts =
                          Append(call[1].responseParts, held.text)
        restarts == prompt => session[1].sinceCheck /\ ~session'[1].sinceCheck
    IN resumes /\ restarts
    ]_vars

\* A second prompt is pending after the query resumed from the first.
C21_Witness ==
    /\ call[1].pc = "timeoutwait"
    /\ obs[1].waited = "resumed"
    /\ ~session[1].sinceCheck

\* C22: when the wait loop finds the answer "abort" and raises the
\* cancelled-by-user error, the query ends there and sendMessageStreaming
\* fails with that error, whatever the query had produced before.
C22_AbortEndsCancelled ==
    [][(/\ call[1].pc = "timeoutwait"
        /\ session[1].timeoutResponse = "abort"
        /\ call'[1].pc # "timeoutwait"
        /\ call'[1].error = ErrCancelledByUser)
       => /\ call'[1].pc = "returned"
          /\ call'[1].outcome = "thrown"
          /\ call'[1].error = ErrCancelledByUser]_vars

\* ------------------------------------------------------ status callbacks
\* C23: the text and segment_end callbacks of a query come in the order the
\* text arrived (within a segment each carries the text of the one before it
\* as a prefix), their segment ids never decrease, no segment id is given two
\* segment_end callbacks, and no text callback for a segment follows its
\* segment_end.
C23_SegmentsInOrder ==
    LET L == obs[1].log
        seg(i) == L[i].kind \in {"text", "segment_end"}
        prefix(a, b) == Len(a) <= Len(b) /\ SubSeq(b, 1, Len(a)) = a
    IN \A i, j \in 1..Len(L) :
          i < j /\ seg(i) /\ seg(j) =>
             /\ L[i].seg <= L[j].seg
             /\ L[i].seg = L[j].seg => prefix(L[i].text, L[j].text)
             /\ L[i].kind = "segment_end" => L[i].seg # L[j].seg

\* A text update of a later segment follows the segment_end of an earlier one.
C23_Witness ==
    \E i, j \in 1..Len(obs[1].log) :
        /\ i < j
        /\ obs[1].log[i].kind = "segment_end"
        /\ obs[1].log[j].kind = "text"
        /\ obs[1].log[j].seg > obs[1].log[i].seg

\* C24: a tool block the safety checks reject is reported through the status
\* callback, as the last callback of the query and the only one made for the
\* block, and sendMessageStreaming then throws the safety error; the query
\* takes no further event.
C24_SafetyBlockThrows ==
    [][LET L == obs[1].log
           M == obs'[1].log
           blocked ==
               /\ call[1].pc = "running"
               /\ call'[1].error.kind \in
                     {"Unsafe command blocked", "File access blocked"}
       IN blocked =>
            /\ call'[1].pc = "returned"
            /\ Len(M) = Len(L) + 1
            /\ SubSeq(M, 1, Len(L)) = L
            /\ M[Len(M)].kind = "tool"
            /\ M[Len(M)].text \in {<<"BLOCKED">>, <<"Access denied">>}
            /\ call'[1].outcome = "thrown"]_vars

C28_NewDirNewSession ==
    [][/\ session'[1].workingDir # session[1].workingDir =>
            /\ session'[1].sessionId = NULL
            /\ session'[1] = [session[1] EXCEPT
                                 !.workingDir = session'[1].workingDir,
                                 !.sessionId = NULL, !.freshDir = TRUE,
                                 !.cleared = TRUE]
            /\ UNCHANGED <<call, activeQueries, disk, undo>>
       /\ (/\ session[1].freshDir
           /\ call[1].pc # "running" /\ call'[1].pc = "running")
          => call'[1].resume = NULL]_vars

\* C29: the handoff context is used once: a query that starts while sessionId
\* is null carries it in front of its prompt and clears it; a query that
\* starts on an existing session neither carries nor clears it; nothing but
\* a query that carries it clears it.
C29_HandoffOneShot ==
    [][LET S == session[1]
           starts == call[1].pc # "running" /\ call'[1].pc = "running"
       IN /\ starts /\ S.sessionId = NULL =>
               /\ call'[1].handoff = S.handoffContext
               /\ session'[1].handoffContext = NULL
          /\ starts /\ S.sessionId # NULL =>
               /\ call'[1].handoff = NULL
               /\ session'[1].handoffContext = S.handoffContext
          /\ S.handoffContext # NULL /\ session'[1].handoffContext = NULL =>
               /\ starts
               /\ call'[1].handoff = S.handoffContext]_vars

\* ---------------------------------------------------------- Codex deltas
\* C30: for an item whose snapshots each began with the one before, the
\* deltas emitted, joined, are the latest snapshot; a snapshot that is empty
\* or equal to the one held for the item yields no event.
C30_DeltasRebuildSnapshot ==
    LET x == call[1].codex IN
    /\ \A i \in Items : x.extending[i] => x.emitted[i] = x.latest[i]
    /\ x.last.text = <<>> \/ x.last.text = x.last.prev => x.last.delta = NullText

\* Two deltas, "a" and then "b", rebuilt the snapshot "ab" of the agent
\* message.
C30_Witness ==
    LET x == call[1].codex IN
    /\ x.extending["i1"]
    /\ x.latest["i1"] = <<"a", "b">>
    /\ x.last = [text |-> <<"a", "b">>, prev |-> <<"a">>, delta |-> <<"b">>]
    /\ x.emitted["i1"] = <<"a", "b">>

\* ------------------------------------------------------- "!!" messages
\* C31: a "!!" message that found a query running, and so called stop() and
\* waited, is then sent to the provider: its own sendMessageStreaming call
\* starts a query and is not cancelled by the flag that stop() set.
C31_InterruptIsDelivered ==
    [][\A q \in Calls :
         call[q].kind = "interrupt" /\ call[q].pc = "sleep"
           /\ call'[q].pc # "sleep"
         => call'[q].pc = "running"]_vars

\* ------------------------------------------------------------- /stop
\* C32: once the /stop handler has run to its end (stop(), the 100 ms wait,
\* clearStopRequested()) against a send that was Processing or Running, that
\* send starts no provider query, respectively processes no further event.
C32_StopEffectiveAtAnyTime ==
    [][\A q \in Calls :
         LET s == SessionOf(q) IN
         stopPc[s] = "idle" =>
           /\ pendingStop[s] /\ SendStep(q) => call'[q].pc # "running"
           /\ obs[q].stopSeen =>
                ~ \E ev \in StreamEvents :
                     DeliverProcess(q, ev) \/ DeliverTimeoutCheck(q, ev)]_vars

\* ------------------------------------------------- session id, cleared
\* C33: after kill() or setWorkingDir() has cleared sessionId it stays null
\* until a query that starts afterwards captures an id (or /resume restores
\* one): a query that was in flight at the time does not set it again.
C33_ClearedIdStaysNull ==
    \A s \in Sessions : session[s].cleared => session[s].sessionId = NULL

\* ------------------------------------------- overlapping calls, one session
\* C34: while a query of a session is in flight, isRunning is true, stop()
\* answers "stopped" and the controller it aborts is that query's: neither
\* the start nor the cleanup of another call takes them away.
C34_InFlightCanBeStopped ==
    \A q \in Calls :
       InFlight(q) =>
          LET s == SessionOf(q) IN
          /\ isRunning(s)
          /\ stopResult(session[s]) = "stopped"
          /\ session[s].abortController = q

\* ------------------------------------------------- timeout answers
\* C35, as stated: issuing a prompt discards an answer given before it, and
\* the answer is null again whenever a wait ends.
C35_StaleResponseAsStated ==
    [][LET prompt == call[1].pc = "running" /\ call'[1].pc = "timeoutwait"
           waitOver == call[1].pc = "timeoutwait" /\ call'[1].pc # "timeoutwait"
       IN /\ prompt => session'[1].timeoutResponse = NULL
          /\ waitOver => session'[1].timeoutResponse = NULL]_vars

\* C35, amended: issuing a prompt and starting a query discard an answer
\* given before; the cancelled-by-user error is raised only on an "abort"
\* given since the prompt; the answer is null again when a wait ends, except
\* that a wait ended by "abort" ends the query and leaves "abort" behind.
C35_StaleResponseDiscarded ==
    [][LET prompt == call[1].pc = "running" /\ call'[1].pc = "timeoutwait"
           waitOver == call[1].pc = "timeoutwait" /\ call'[1].pc # "timeoutwait"
           starts == call[1].pc \notin {"running", "timeoutwait"}
                        /\ call'[1].pc = "running"
           byAbort == /\ session[1].timeoutResponse = "abort"
                      /\ session'[1].timeoutResponse = "abort"
                      /\ call'[1].pc = "returned"
       IN /\ prompt \/ starts => session'[1].timeoutResponse = NULL
          /\ waitOver => session'[1].timeoutResponse = NULL \/ byAbort
          /\ waitOver /\ call'[1].error = ErrCancelledByUser
                => session[1].timeoutResponse = "abort"]_vars

\* The loop waits at a prompt that discarded an answer given before it.
C35_Witness ==
    /\ call[1].pc = "timeoutwait"
    /\ obs[1].stale
    /\ session[1].timeoutResponse = NULL

\* C36: isRunning is true while a text handler is between startProcessing()
\* and its cleanup call, also when a second handler of the session overlaps
\* with it and calls its cleanup first.
C36_ProcessingCoversHandlers ==
    \A q \in Calls :
       /\ call[q].kind \in {"text", "interrupt"}
       /\ call[q].pc \in {"running", "timeoutwait", "returned", "retrywait"}
       => isRunning(SessionOf(q))

\* ------------------------------------------------- crash and retry
\* C37: when the Codex worker exits with a code other than zero after the
\* result event of the turn was delivered, sendMessageStreaming resolves
\* with the text it has and records no error.
C37_CodexExitAfterResult ==
    [][/\ call[1].pc = "running" /\ call[1].queryCompleted
       /\ call'[1].pc = "returned" /\ call'[1].error \in CodexErrors
       => /\ call'[1].outcome = "resolved"
          /\ call'[1].result = IF call[1].responseParts = <<>> THEN NoResponse
                               ELSE Join(call[1].responseParts)
          /\ session'[1].lastError = NULL]_vars

\* C38: a send that is rejected before it starts a query (cancelled by a
\* pending stop, or refused by the gate) leaves the forced thinking budget
\* and the handoff context as they were, for the next send that starts.
C38_RejectedSendKeepsOneShots ==
    [][SendStep(1) /\ call'[1].pc = "returned" =>
          /\ session'[1].forceThinking = session[1].forceThinking
          /\ session'[1].handoffContext = session[1].handoffContext]_vars

C40_PlanModeSurvivesRetry ==
    [][/\ session'[1].planMode # session[1].planMode => UNCHANGED call
       /\ call[1].pc \in {"idle", "retrywait"} /\ call'[1].pc = "running" =>
             call'[1].permissionMode =
                IF session[1].planMode THEN "plan" ELSE "bypassPermissions"]_vars

====
